---- MODULE Spec2Model ----
(***************************************************************************)
(* Star-seeker: the streaming search adapter performSearchStream           *)
(* (src/src/services/geminiService.ts) and its consumer, handleSearch of   *)
(* the App component (src/unnamed/part_000).                               *)
(*                                                                         *)
(* A JavaScript string is modelled as a sequence of one-character strings. *)
(* The five Hangul syllables of the marker literal "추천검색어:" are        *)
(* written c1..c5, so the marker is the six-character sequence             *)
(* c1 c2 c3 c4 c5 ":".  The alphabet of the model is the marker's          *)
(* characters, the space, the line feed and the letters "a" and "b"; the   *)
(* line feed is the only line terminator in it.                            *)
(***************************************************************************)
EXTENDS Naturals, Sequences, FiniteSets

VARIABLES
    apiKey,      \* process.env.GEMINI_API_KEY is set (line 10)
    pc,          \* position of the generator body
    calls,       \* number of generateContentStream calls made (line 18)
    delivered,   \* the chunks the for-await loop has taken from upstream so far
    fullText,    \* let fullText (line 29)
    suggestion,  \* let suggestion (line 30)
    sources,     \* let sources (line 31)
    out,         \* the items yielded to the consumer, in order
    thrown,      \* the error the generator threw to its caller, or NoError
    upstreamFailure,  \* the error the generative-search call raised, or NoError
    requests     \* number of next() calls the consumer has made on the generator

\* The App component
VARIABLES
    isSearching,      \* useState(false) (line 20)
    result,           \* useState<SearchResult | null>(null) (line 21)
    error,            \* useState<string | null>(null) (line 22); NoError is null
    hasSearched,      \* useState(false) (line 23)
    seenIsSearching,  \* isSearching as captured by the handlers of the last render
    consuming,        \* number of handleSearch calls inside their for-await loop
    lastCall,         \* how the last handleSearch call went: "started", "returned"
    replaced          \* the running search replaced a result that had content

\* A second invocation of performSearchStream, running beside the first:
\* a record of its position, its locals and what it took and yielded, with
\* which invocation took the last chunk and whether the arrivals interleaved.
VARIABLES other

genVars ==
    <<apiKey, pc, calls, delivered, fullText, suggestion, sources, out, thrown,
      upstreamFailure, requests>>

appVars ==
    <<isSearching, result, error, hasSearched, seenIsSearching, consuming,
      lastCall, replaced>>

vars == <<genVars, appVars, other>>

\* Most chunks one upstream stream delivers in the model.
MaxChunks == 3

------------------------------------------------------------------------------
(* Strings *)

Marker == <<"c1", "c2", "c3", "c4", "c5", ":">>

LF == "\n"

\* The characters String.prototype.trim removes, among those of the alphabet.
WhiteSpace == {" ", LF}

\* The value of an unset optional (undefined); it is no string of the alphabet.
Undefined == <<"undefined">>

\* JavaScript truthiness of a string-or-undefined value.
Truthy(s) == s # Undefined /\ s # <<>>

RECURSIVE TrimStart(_)
TrimStart(s) ==
    IF s # <<>> /\ Head(s) \in WhiteSpace THEN TrimStart(Tail(s)) ELSE s

RECURSIVE TrimEnd(_)
TrimEnd(s) ==
    IF s # <<>> /\ s[Len(s)] \in WhiteSpace
    THEN TrimEnd(SubSeq(s, 1, Len(s) - 1))
    ELSE s

\* String.prototype.trim
Trim(s) == TrimEnd(TrimStart(s))

\* p occurs in s at position i
OccursAt(s, p, i) ==
    /\ i >= 1
    /\ i + Len(p) - 1 <= Len(s)
    /\ SubSeq(s, i, i + Len(p) - 1) = p

\* String.prototype.startsWith
StartsWith(s, p) == OccursAt(s, p, 1)

\* String.prototype.indexOf, 1-based; 0 when p does not occur in s
IndexOf(s, p) ==
    LET hits == {i \in 1..Len(s) : OccursAt(s, p, i)}
    IN  IF hits = {} THEN 0 ELSE CHOOSE i \in hits : \A j \in hits : i <= j

\* String.prototype.includes
Includes(s, p) == IndexOf(s, p) # 0

\* String.prototype.split('\n'): always at least one line
RECURSIVE Split(_)
Split(s) ==
    LET i == IndexOf(s, <<LF>>)
    IN  IF i = 0
        THEN <<s>>
        ELSE <<SubSeq(s, 1, i - 1)>> \o Split(SubSeq(s, i + 1, Len(s)))

\* String.prototype.replace(p, "") with a string pattern: the first occurrence only
RemoveFirst(s, p) ==
    LET i == IndexOf(s, p)
    IN  IF i = 0
        THEN s
        ELSE SubSeq(s, 1, i - 1) \o SubSeq(s, i + Len(p), Len(s))

\* lines.find(line => line.trim().startsWith("추천검색어:")) (line 40):
\* the first such line, Undefined when there is none
FindSuggestionLine(lines) ==
    LET hits == {i \in 1..Len(lines) : StartsWith(Trim(lines[i]), Marker)}
    IN  IF hits = {}
        THEN Undefined
        ELSE lines[CHOOSE i \in hits : \A j \in hits : i <= j]

\* fullText.replace(/^추천검색어:.*$/m, "") (line 61): no g flag, so only the
\* leftmost match is removed; with the m flag ^ matches at the start of the
\* text and after a line terminator, and .* runs up to the next line terminator.
StripMarkerLine(text) ==
    LET starts == {i \in 1..Len(text) :
                     /\ (i = 1 \/ text[i - 1] = LF)
                     /\ OccursAt(text, Marker, i)}
    IN  IF starts = {}
        THEN text
        ELSE LET p == CHOOSE i \in starts : \A j \in starts : i <= j
                 rest == SubSeq(text, p, Len(text))
                 n == IndexOf(rest, <<LF>>)
                 e == IF n = 0 THEN Len(text) ELSE p + n - 2
             IN  SubSeq(text, 1, p - 1) \o SubSeq(text, e + 1, Len(text))

------------------------------------------------------------------------------
(* Upstream chunks *)

\* One entry of groundingMetadata.groundingChunks: a web citation or not.
Web(u, t) == [web |-> TRUE, uri |-> u, title |-> t]
NonWeb == [web |-> FALSE, uri |-> "", title |-> ""]

\* A chunk: its text (chunk.text || "") and its grounding chunks (|| []).
Chunk(t, g) == [text |-> t, grounding |-> g]

ChunkTexts ==
    { <<>>,
      Marker,
      <<"c1", "c2", "c3">>,
      <<"c4", "c5", ":">>,
      Marker \o <<" ", "a">>,
      <<LF>>,
      <<LF, "b", " ">>,
      <<" ">>,
      <<"a">> }

Groundings ==
    { <<Web("u1", "t1")>>,
      <<Web("u1", "t2")>>,
      <<Web("u2", ""), NonWeb>>,
      <<NonWeb>>,
      <<Web("u1", "t1"), Web("u1", "t2")>>,
      <<Web("u2", "t1"), Web("u1", "t1")>> }

Chunks ==
    {Chunk(t, <<>>) : t \in ChunkTexts} \cup {Chunk(<<>>, g) : g \in Groundings}

\* Failures of the generative-search call, each written as its message; the
\* last one is an error without a message.
UpstreamErrors == {"network", "quota", ""}

NoError == "none"

\* new Error("API 키가 설정되지 않았습니다. ...") (line 12)
AuthError == "API key missing"

------------------------------------------------------------------------------
(* The loop body of performSearchStream *)

\* ExtractSuggestion without the more-than-one-line test of line 41.
ExtractSuggestionAnyLine(prev, text) ==
    IF ~Truthy(prev) /\ Includes(text, Marker)
    THEN LET suggestionLine == FindSuggestionLine(Split(text))
         IN  IF Truthy(suggestionLine)
             THEN Trim(RemoveFirst(suggestionLine, Marker))
             ELSE prev
    ELSE prev

\* ExtractSuggestion without the !suggestion guard and taking the last marker
\* line instead of the first: the suggestion is recomputed on every chunk.
ExtractSuggestionLatest(prev, text) ==
    IF Includes(text, Marker)
    THEN LET lines == Split(text)
             hits == {i \in 1..Len(lines) : StartsWith(Trim(lines[i]), Marker)}
         IN  IF hits # {} /\ Len(lines) > 1
             THEN Trim(RemoveFirst(
                      lines[CHOOSE i \in hits : \A j \in hits : i >= j], Marker))
             ELSE prev
    ELSE prev

\* Lines 38-44: the suggestion after a chunk, given the one before it and the
\* accumulated text.
ExtractSuggestion(prev, text) ==
    IF ~Truthy(prev) /\ Includes(text, Marker)
    THEN LET lines == Split(text)
             suggestionLine == FindSuggestionLine(lines)
         IN  IF /\ Truthy(suggestionLine)
                /\ (Includes(suggestionLine, <<LF>>) \/ Len(Split(text)) > 1)
             THEN Trim(RemoveFirst(suggestionLine, Marker))
             ELSE prev
    ELSE prev

\* NewSources without the filter of line 50: every grounding chunk is mapped.
NewSourcesUnfiltered(chunks) ==
    [i \in 1..Len(chunks) |->
        [uri |-> chunks[i].uri,
         title |-> IF chunks[i].title # "" THEN chunks[i].title ELSE chunks[i].uri]]

\* Lines 49-54: .filter(c => c.web).map(c => ({uri, title: title || uri}))
RECURSIVE NewSources(_)
NewSources(chunks) ==
    IF chunks = <<>>
    THEN <<>>
    ELSE LET c == Head(chunks)
         IN  (IF c.web
              THEN <<[uri |-> c.uri,
                      title |-> IF c.title # "" THEN c.title ELSE c.uri]>>
              ELSE <<>>) \o NewSources(Tail(chunks))

\* MapSet that keeps the value already stored under the key (first write wins).
MapSetFirstWins(m, s) ==
    IF \E i \in 1..Len(m) : m[i].uri = s.uri THEN m ELSE Append(m, s)

\* MapSet that deletes the key before setting it: a key set again moves to the end.
MapSetMoveToEnd(m, s) ==
    Append(SelectSeq(m, LAMBDA x : x.uri # s.uri), s)

\* Map.prototype.set on a list of values kept in insertion order: an existing
\* key keeps its place and takes the new value, a new key goes to the end.
MapSet(m, s) ==
    IF \E i \in 1..Len(m) : m[i].uri = s.uri
    THEN [i \in 1..Len(m) |-> IF m[i].uri = s.uri THEN s ELSE m[i]]
    ELSE Append(m, s)

\* Array.from(new Map(allSources.map(s => [s.uri, s])).values()) (line 57)
RECURSIVE MapRebuild(_, _)
MapRebuild(m, allSources) ==
    IF allSources = <<>>
    THEN m
    ELSE MapRebuild(MapSet(m, Head(allSources)), Tail(allSources))

\* MergeSources that replaces the list by the chunk's sources instead of merging.
MergeSourcesReplace(prev, chunks) == NewSources(chunks)

\* MergeSources without the Map rebuild: the new sources are only appended.
MergeSourcesNoDedup(prev, chunks) ==
    IF Len(chunks) > 0 THEN prev \o NewSources(chunks) ELSE prev

\* Lines 47-58: the sources after a chunk.
MergeSources(prev, chunks) ==
    IF Len(chunks) > 0
    THEN MapRebuild(<<>>, prev \o NewSources(chunks))
    ELSE prev

\* Snapshot without the trim() of line 61.
SnapshotUntrimmed(text, sugg, srcs) ==
    [done |-> FALSE,
     text |-> StripMarkerLine(text),
     suggestion |-> sugg,
     sources |-> srcs]

\* Lines 60-64: the yielded snapshot.
Snapshot(text, sugg, srcs) ==
    [done |-> FALSE,
     text |-> Trim(StripMarkerLine(text)),
     suggestion |-> sugg,
     sources |-> srcs]

\* Line 67: { done: true }; its other fields are absent.
DoneMarker ==
    [done |-> TRUE, text |-> Undefined, suggestion |-> Undefined, sources |-> <<>>]

------------------------------------------------------------------------------
(* The generator *)

Init ==
    /\ apiKey \in BOOLEAN
    /\ pc = "notCalled"
    /\ calls = 0
    /\ delivered = <<>>
    /\ fullText = <<>>
    /\ suggestion = Undefined
    /\ sources = <<>>
    /\ out = <<>>
    /\ thrown = NoError
    /\ upstreamFailure = NoError
    /\ requests = 0

\* performSearchStream(query) (line 9): an async generator function returns its
\* generator without running any of its body.
PerformSearchStream ==
    /\ pc = "notCalled"
    /\ pc' = "suspendedStart"
    /\ UNCHANGED <<apiKey, calls, delivered, fullText, suggestion, sources, out,
                   thrown, upstreamFailure>>
    /\ UNCHANGED requests

\* The first next() with no credential: lines 10-13.
NextMissingKey ==
    /\ pc = "suspendedStart"
    /\ ~apiKey
    /\ pc' = "threw"
    /\ thrown' = AuthError
    /\ UNCHANGED <<apiKey, calls, delivered, fullText, suggestion, sources, out,
                   upstreamFailure>>
    /\ requests' = requests + 1

\* NextOpenStream without the check of lines 11-13.
NextOpenStreamUnchecked ==
    /\ pc = "suspendedStart"
    /\ calls' = calls + 1
    /\ pc' = "opening"
    /\ UNCHANGED <<apiKey, delivered, fullText, suggestion, sources, out, thrown,
                   upstreamFailure>>
    /\ requests' = requests + 1

\* The first next() with a credential: lines 10-18, up to the await of
\* generateContentStream.
NextOpenStream ==
    /\ pc = "suspendedStart"
    /\ apiKey
    /\ calls' = calls + 1
    /\ pc' = "opening"
    /\ UNCHANGED <<apiKey, delivered, fullText, suggestion, sources, out, thrown,
                   upstreamFailure>>
    /\ requests' = requests + 1

\* generateContentStream resolves: lines 29-33, up to the await of the first chunk.
StreamOpened ==
    /\ pc = "opening"
    /\ fullText' = <<>>
    /\ suggestion' = Undefined
    /\ sources' = <<>>
    /\ pc' = "awaitingChunk"
    /\ UNCHANGED <<apiKey, calls, delivered, out, thrown, upstreamFailure>>
    /\ UNCHANGED requests

\* generateContentStream rejects: caught and rethrown (lines 68-71).
StreamOpenFails(e) ==
    /\ pc = "opening"
    /\ pc' = "threw"
    /\ upstreamFailure' = e
    /\ thrown' = upstreamFailure'
    /\ UNCHANGED <<apiKey, calls, delivered, fullText, suggestion, sources, out>>
    /\ UNCHANGED requests

\* ChunkArrives with a loop that does not wait at its yield: the next chunk is
\* taken while the consumer still holds the last snapshot.
ChunkArrivesEager(chunk) ==
    /\ pc \in {"awaitingChunk", "suspendedYield"}
    /\ Len(delivered) < MaxChunks
    /\ delivered' = Append(delivered, chunk)
    /\ fullText' = fullText \o chunk.text
    /\ suggestion' = ExtractSuggestion(suggestion, fullText')
    /\ sources' = MergeSources(sources, chunk.grounding)
    /\ out' = Append(out, Snapshot(fullText', suggestion', sources'))
    /\ pc' = "suspendedYield"
    /\ UNCHANGED <<apiKey, calls, thrown, upstreamFailure>>
    /\ UNCHANGED requests

\* Upstream delivers a chunk: one turn of the loop, lines 33-64, up to the yield.
ChunkArrives(chunk) ==
    /\ pc = "awaitingChunk"
    /\ Len(delivered) < MaxChunks
    /\ delivered' = Append(delivered, chunk)
    /\ fullText' = fullText \o chunk.text
    /\ suggestion' = ExtractSuggestion(suggestion, fullText')
    /\ sources' = MergeSources(sources, chunk.grounding)
    /\ out' = Append(out, Snapshot(fullText', suggestion', sources'))
    /\ pc' = "suspendedYield"
    /\ UNCHANGED <<apiKey, calls, thrown, upstreamFailure>>
    /\ UNCHANGED requests

\* StreamEnds without line 67: the body ends without yielding the marker.
StreamEndsNoMarker ==
    /\ pc = "awaitingChunk"
    /\ pc' = "suspendedDone"
    /\ UNCHANGED <<apiKey, calls, delivered, fullText, suggestion, sources, out,
                   thrown, upstreamFailure>>
    /\ UNCHANGED requests

\* Upstream ends: the loop exits and line 67 yields the terminal marker.
StreamEnds ==
    /\ pc = "awaitingChunk"
    /\ out' = Append(out, DoneMarker)
    /\ pc' = "suspendedDone"
    /\ UNCHANGED <<apiKey, calls, delivered, fullText, suggestion, sources, thrown,
                   upstreamFailure>>
    /\ UNCHANGED requests

\* StreamFails with a catch block that swallows the error and ends the
\* sequence with the terminal marker instead of rethrowing.
StreamFailsSwallowed(e) ==
    /\ pc = "awaitingChunk"
    /\ upstreamFailure' = e
    /\ out' = Append(out, DoneMarker)
    /\ pc' = "suspendedDone"
    /\ UNCHANGED <<apiKey, calls, delivered, fullText, suggestion, sources, thrown>>
    /\ UNCHANGED requests

\* Upstream fails while the loop awaits a chunk: caught and rethrown (lines 68-71).
StreamFails(e) ==
    /\ pc = "awaitingChunk"
    /\ pc' = "threw"
    /\ upstreamFailure' = e
    /\ thrown' = upstreamFailure'
    /\ UNCHANGED <<apiKey, calls, delivered, fullText, suggestion, sources, out>>
    /\ UNCHANGED requests

\* The consumer asks for the next item after a snapshot: the loop awaits upstream.
NextAfterSnapshot ==
    /\ pc = "suspendedYield"
    /\ pc' = "awaitingChunk"
    /\ UNCHANGED <<apiKey, calls, delivered, fullText, suggestion, sources, out,
                   thrown, upstreamFailure>>
    /\ requests' = requests + 1

\* The consumer asks for the next item after the terminal marker: the body
\* runs off its end (line 67 to 72) and the generator completes.
NextAfterDone ==
    /\ pc = "suspendedDone"
    /\ pc' = "completed"
    /\ UNCHANGED <<apiKey, calls, delivered, fullText, suggestion, sources, out,
                   thrown, upstreamFailure>>
    /\ requests' = requests + 1

\* The consumer leaves its for-await loop (return()): a suspended generator completes.
Return ==
    /\ pc \in {"suspendedStart", "suspendedYield", "suspendedDone"}
    /\ pc' = "completed"
    /\ UNCHANGED <<apiKey, calls, delivered, fullText, suggestion, sources, out,
                   thrown, upstreamFailure>>
    /\ UNCHANGED requests

------------------------------------------------------------------------------
(* A second invocation of the generator, with its own locals (lines 29-31) *)

\* performSearchStream(query) called a second time (line 9).
PerformSearchStreamOther ==
    /\ other.pc = "notCalled"
    /\ other' = [other EXCEPT !.pc = "suspendedStart"]
    /\ UNCHANGED <<genVars, appVars>>

\* Its first next(): lines 10-18, the throw of line 12 without a credential.
NextOpenStreamOther ==
    /\ other.pc = "suspendedStart"
    /\ other' = IF apiKey
                THEN [other EXCEPT !.pc = "opening"]
                ELSE [other EXCEPT !.pc = "threw", !.thrown = AuthError]
    /\ UNCHANGED <<genVars, appVars>>

\* Its generateContentStream resolves: lines 29-33, fresh locals.
StreamOpenedOther ==
    /\ other.pc = "opening"
    /\ other' = [other EXCEPT !.pc = "awaitingChunk", !.fullText = <<>>,
                              !.suggestion = Undefined, !.sources = <<>>]
    /\ UNCHANGED <<genVars, appVars>>

\* ChunkArrivesOther with fullText declared outside the function: both
\* invocations append to the one buffer.
ChunkArrivesOtherShared(chunk) ==
    /\ other.pc = "awaitingChunk"
    /\ Len(other.delivered) < MaxChunks
    /\ fullText' = fullText \o chunk.text
    /\ LET sugg == ExtractSuggestion(other.suggestion, fullText')
           srcs == MergeSources(other.sources, chunk.grounding)
       IN  other' = [other EXCEPT
                        !.pc = "suspendedYield",
                        !.delivered = Append(@, chunk),
                        !.fullText = fullText',
                        !.suggestion = sugg,
                        !.sources = srcs,
                        !.out = Append(@, Snapshot(fullText', sugg, srcs)),
                        !.interleaved = @ \/ (other.last = "first" /\ other.delivered # <<>>),
                        !.last = "other"]
    /\ UNCHANGED <<apiKey, pc, calls, delivered, suggestion, sources, out, thrown,
                   upstreamFailure, requests>>
    /\ UNCHANGED appVars

\* Its upstream delivers a chunk: one turn of its loop, lines 33-64, on its
\* own fullText, suggestion and sources.
ChunkArrivesOther(chunk) ==
    /\ other.pc = "awaitingChunk"
    /\ Len(other.delivered) < MaxChunks
    /\ LET text == other.fullText \o chunk.text
           sugg == ExtractSuggestion(other.suggestion, text)
           srcs == MergeSources(other.sources, chunk.grounding)
       IN  other' = [other EXCEPT
                        !.pc = "suspendedYield",
                        !.delivered = Append(@, chunk),
                        !.fullText = text,
                        !.suggestion = sugg,
                        !.sources = srcs,
                        !.out = Append(@, Snapshot(text, sugg, srcs)),
                        !.interleaved = @ \/ (other.last = "first" /\ other.delivered # <<>>),
                        !.last = "other"]
    /\ UNCHANGED <<genVars, appVars>>

\* Its consumer asks for the next item after a snapshot.
NextAfterSnapshotOther ==
    /\ other.pc = "suspendedYield"
    /\ other' = [other EXCEPT !.pc = "awaitingChunk"]
    /\ UNCHANGED <<genVars, appVars>>

\* Its upstream ends: line 67 yields the terminal marker.
StreamEndsOther ==
    /\ other.pc = "awaitingChunk"
    /\ other' = [other EXCEPT !.pc = "suspendedDone", !.out = Append(@, DoneMarker)]
    /\ UNCHANGED <<genVars, appVars>>

------------------------------------------------------------------------------
(* The App component: handleSearch and the other handlers that write its state *)

\* null, read through prev?.text, prev?.sources and prev?.suggestion
NullResult ==
    [isNull |-> TRUE, text |-> Undefined, sources |-> <<>>, suggestion |-> Undefined]

\* { text: "", sources: [] } (line 37)
EmptyResult ==
    [isNull |-> FALSE, text |-> <<>>, sources |-> <<>>, suggestion |-> Undefined]

\* a || b on string-or-undefined values
Or(a, b) == IF Truthy(a) THEN a ELSE b

\* The updater of lines 43-47. An array is truthy even when empty, so
\* chunk.sources || ... is the snapshot's sources.
MergeResult(prev, chunk) ==
    [isNull |-> FALSE,
     text |-> Or(chunk.text, Or(prev.text, <<>>)),
     sources |-> chunk.sources,
     suggestion |-> Or(chunk.suggestion, prev.suggestion)]

\* '검색 중 오류가 발생했습니다. 다시 시도해주세요.' (line 50)
DefaultMessage == "search failed, try again"

\* err.message || '...' (line 50)
ErrorMessage(e) == IF e # "" THEN e ELSE DefaultMessage

\* What the user may have typed in the search box.
Queries == {<<>>, <<" ">>, <<"a">>}

AppInit ==
    /\ isSearching = FALSE
    /\ result = NullResult
    /\ error = NoError
    /\ hasSearched = FALSE
    /\ seenIsSearching = FALSE
    /\ consuming = 0
    /\ lastCall = "none"
    /\ replaced = FALSE

\* Lines 40-41 seen from the generator: performSearchStream is called and the
\* for-await loop makes its first next(), which runs the body of a fresh
\* generator up to its await of generateContentStream or to its throw of
\* line 12.
CallAndPull ==
    /\ pc' = IF apiKey THEN "opening" ELSE "threw"
    /\ calls' = IF apiKey THEN 1 ELSE 0
    /\ thrown' = IF apiKey THEN NoError ELSE AuthError
    /\ upstreamFailure' = NoError
    /\ requests' = 1
    /\ delivered' = <<>>
    /\ fullText' = <<>>
    /\ suggestion' = Undefined
    /\ sources' = <<>>
    /\ out' = <<>>
    /\ UNCHANGED apiKey

\* The early return of line 32.
ReturnEarly ==
    /\ lastCall' = "returned"
    /\ UNCHANGED <<genVars, isSearching, result, error, hasSearched,
                   seenIsSearching, consuming, replaced>>

\* StartSearch without the setResult of line 37.
StartSearchNoReset ==
    /\ lastCall' = "started"
    /\ isSearching' = TRUE
    /\ seenIsSearching' = TRUE
    /\ error' = NoError
    /\ hasSearched' = TRUE
    /\ UNCHANGED result
    /\ replaced' = (/\ ~result.isNull
                    /\ \/ result.text # <<>>
                       \/ result.sources # <<>>
                       \/ Truthy(result.suggestion))
    /\ consuming' = consuming + 1
    /\ CallAndPull

\* Lines 34-41, up to the first await: the four state updates, then the call
\* and the first pull.  The call comes from a submit or a click, and React
\* renders the updates of such an event before the next event is handled: the
\* handlers of the next event see isSearching true.
StartSearch ==
    /\ lastCall' = "started"
    /\ isSearching' = TRUE
    /\ seenIsSearching' = TRUE
    /\ error' = NoError
    /\ hasSearched' = TRUE
    /\ result' = EmptyResult
    /\ replaced' = (/\ ~result.isNull
                    /\ \/ result.text # <<>>
                       \/ result.sources # <<>>
                       \/ Truthy(result.suggestion))
    /\ consuming' = consuming + 1
    /\ CallAndPull

\* handleSearch without the isSearching test of line 32.
HandleSearchNoBusyCheck(overrideQuery, query) ==
    IF Trim(Or(overrideQuery, query)) = <<>> THEN ReturnEarly ELSE StartSearch

\* handleSearch (lines 29-41), up to its first await.
HandleSearch(overrideQuery, query) ==
    LET searchTerm == Or(overrideQuery, query)
    IN  IF Trim(searchTerm) = <<>> \/ seenIsSearching
        THEN ReturnEarly
        ELSE StartSearch

\* The form's onSubmit (line 158).
Submit == \E query \in Queries : HandleSearch(Undefined, query)

\* The suggestion button (lines 203-215), rendered when the search is over
\* and the result carries a suggestion.
AcceptSuggestion ==
    /\ ~seenIsSearching
    /\ Truthy(result.suggestion)
    /\ \E query \in Queries : HandleSearch(result.suggestion, query)

\* One turn of the for-await loop (lines 41-48): a snapshot is received, the
\* result is updated and the next item is requested.
ConsumeSnapshot ==
    /\ consuming > 0
    /\ NextAfterSnapshot
    /\ result' = MergeResult(result, out[Len(out)])
    /\ UNCHANGED <<isSearching, error, hasSearched, seenIsSearching, consuming,
                   lastCall, replaced>>

\* ConsumeDone without the finally block: isSearching stays true.
ConsumeDoneNoFinally ==
    /\ consuming > 0
    /\ pc = "suspendedDone"
    /\ Return
    /\ consuming' = consuming - 1
    /\ UNCHANGED <<isSearching, result, error, hasSearched, seenIsSearching,
                   lastCall, replaced>>

\* The terminal marker is received: break (line 42) returns the generator,
\* then finally (lines 52-54).
ConsumeDone ==
    /\ consuming > 0
    /\ pc = "suspendedDone"
    /\ Return
    /\ isSearching' = FALSE
    /\ consuming' = consuming - 1
    /\ UNCHANGED <<result, error, hasSearched, seenIsSearching, lastCall, replaced>>

\* ConsumeError with a catch block that also clears the result.
ConsumeErrorClearsResult ==
    /\ consuming > 0
    /\ pc = "threw"
    /\ error' = ErrorMessage(thrown)
    /\ result' = NullResult
    /\ isSearching' = FALSE
    /\ consuming' = consuming - 1
    /\ UNCHANGED <<genVars, hasSearched, seenIsSearching, lastCall, replaced>>

\* The generator threw: catch (lines 49-51), then finally (lines 52-54).
ConsumeError ==
    /\ consuming > 0
    /\ pc = "threw"
    /\ error' = ErrorMessage(thrown)
    /\ isSearching' = FALSE
    /\ consuming' = consuming - 1
    /\ UNCHANGED <<genVars, result, hasSearched, seenIsSearching, lastCall, replaced>>

\* React renders after an update made outside an event: the handlers see the
\* current isSearching again.
Render ==
    /\ seenIsSearching # isSearching
    /\ seenIsSearching' = isSearching
    /\ UNCHANGED <<genVars, isSearching, result, error, hasSearched, consuming,
                   lastCall, replaced>>

\* The click on the logo (lines 81-85); the sidebar is shown once hasSearched.
GoHome ==
    /\ hasSearched
    /\ hasSearched' = FALSE
    /\ result' = NullResult
    /\ UNCHANGED <<genVars, isSearching, error, seenIsSearching, consuming,
                   lastCall, replaced>>

------------------------------------------------------------------------------
(* Specifications *)

\* The second invocation before it is called.
OtherInit ==
    other = [pc |-> "notCalled", delivered |-> <<>>, fullText |-> <<>>,
             suggestion |-> Undefined, sources |-> <<>>, out |-> <<>>,
             thrown |-> NoError, last |-> "none", interleaved |-> FALSE]

\* The adapter with any consumer: the App and the second invocation stay idle.
AdapterOnly == UNCHANGED <<appVars, other>>

Next ==
    \/ PerformSearchStream /\ AdapterOnly
    \/ NextMissingKey /\ AdapterOnly
    \/ NextOpenStream /\ AdapterOnly
    \/ StreamOpened /\ AdapterOnly
    \/ \E e \in UpstreamErrors : StreamOpenFails(e) /\ AdapterOnly
    \/ \E chunk \in Chunks : ChunkArrives(chunk) /\ AdapterOnly
    \/ StreamEnds /\ AdapterOnly
    \/ \E e \in UpstreamErrors : StreamFails(e) /\ AdapterOnly
    \/ NextAfterSnapshot /\ AdapterOnly
    \/ NextAfterDone /\ AdapterOnly
    \/ Return /\ AdapterOnly

\* Nothing called yet, the App just mounted.
InitAll == Init /\ AppInit /\ OtherInit

Spec == InitAll /\ [][Next]_vars

\* The chunks of the streams the App consumes.
AppChunks ==
    { Chunk(<<"c1", "c2", "c3">>, <<>>),
      Chunk(<<"c4", "c5", ":">>, <<>>),
      Chunk(Marker \o <<" ", "a">>, <<>>),
      Chunk(<<LF, "b", " ">>, <<>>),
      Chunk(<<>>, <<Web("u1", "t1")>>) }

\* Upstream's side of a stream the App consumes.
UpstreamOnly == UNCHANGED <<appVars, other>>

AppNext ==
    \/ Submit /\ UNCHANGED other
    \/ AcceptSuggestion /\ UNCHANGED other
    \/ StreamOpened /\ UpstreamOnly
    \/ \E e \in UpstreamErrors : StreamOpenFails(e) /\ UpstreamOnly
    \/ \E chunk \in AppChunks : ChunkArrives(chunk) /\ UpstreamOnly
    \/ StreamEnds /\ UpstreamOnly
    \/ \E e \in UpstreamErrors : StreamFails(e) /\ UpstreamOnly
    \/ ConsumeSnapshot /\ UNCHANGED other
    \/ ConsumeDone /\ UNCHANGED other
    \/ ConsumeError /\ UNCHANGED other
    \/ Render /\ UNCHANGED other
    \/ GoHome /\ UNCHANGED other

\* The App: every stream is one that handleSearch opened and consumes.
SpecApp == InitAll /\ [][AppNext]_vars

\* The App with its scheduling: the generative-search call answers, a stream
\* that is open and awaited eventually ends or fails, every continuation of
\* handleSearch runs, and React renders.
AppFairness ==
    /\ WF_vars((StreamOpened \/ \E e \in UpstreamErrors : StreamOpenFails(e))
               /\ UpstreamOnly)
    /\ WF_vars((StreamEnds \/ \E e \in UpstreamErrors : StreamFails(e))
               /\ UpstreamOnly)
    /\ WF_vars(ConsumeSnapshot /\ UNCHANGED other)
    /\ WF_vars(ConsumeDone /\ UNCHANGED other)
    /\ WF_vars(ConsumeError /\ UNCHANGED other)
    /\ WF_vars(Render /\ UNCHANGED other)

SpecAppFair == InitAll /\ [][AppNext]_vars /\ AppFairness

\* The chunks of two streams that run side by side.
PairChunks ==
    { Chunk(Marker \o <<" ", "a", LF>>, <<Web("u1", "t1")>>),
      Chunk(Marker \o <<" ", "b", LF>>, <<Web("u2", "t2")>>),
      Chunk(<<"b">>, <<Web("u1", "t2")>>) }

\* A step of the first invocation beside the second; a chunk it takes is
\* recorded in the order of arrivals.
FirstOnly == UNCHANGED appVars /\ UNCHANGED other

FirstTakesChunk ==
    /\ other' = [other EXCEPT
                    !.interleaved = @ \/ (other.last = "other" /\ delivered # <<>>),
                    !.last = "first"]
    /\ UNCHANGED appVars

PairNext ==
    \/ PerformSearchStream /\ FirstOnly
    \/ NextMissingKey /\ FirstOnly
    \/ NextOpenStream /\ FirstOnly
    \/ StreamOpened /\ FirstOnly
    \/ \E chunk \in PairChunks : ChunkArrives(chunk) /\ FirstTakesChunk
    \/ NextAfterSnapshot /\ FirstOnly
    \/ StreamEnds /\ FirstOnly
    \/ PerformSearchStreamOther
    \/ NextOpenStreamOther
    \/ StreamOpenedOther
    \/ \E chunk \in PairChunks : ChunkArrivesOther(chunk)
    \/ NextAfterSnapshotOther
    \/ StreamEndsOther

\* Two invocations of performSearchStream whose steps interleave in any order.
SpecPair == InitAll /\ [][PairNext]_vars

------------------------------------------------------------------------------
(* What the upstream stream has delivered, read from the record of its chunks *)

\* The concatenation of the texts of the first k delivered chunks.
RECURSIVE PrefixText(_)
PrefixText(k) ==
    IF k = 0 THEN <<>> ELSE PrefixText(k - 1) \o delivered[k].text

\* The web citations of the first k delivered chunks, in order of arrival.
RECURSIVE Citations(_)
Citations(k) ==
    IF k = 0
    THEN <<>>
    ELSE Citations(k - 1) \o SelectSeq(delivered[k].grounding, LAMBDA c : c.web)

\* The indices of the snapshots among the yielded items.
SnapshotIndices == {k \in 1..Len(out) : ~out[k].done}

------------------------------------------------------------------------------
(* Claims *)

\* C1: the sources list of every emitted snapshot, the final one included,
\* holds no two entries with the same uri.
NoDuplicateUris ==
    \A k \in SnapshotIndices :
        \A i, j \in 1..Len(out[k].sources) :
            out[k].sources[i].uri = out[k].sources[j].uri => i = j

\* C1 witness: one chunk cited the same uri twice and its snapshot lists it once.
NoDuplicateUrisWitness ==
    \E k \in SnapshotIndices :
        /\ \E i, j \in 1..Len(delivered[k].grounding) :
              /\ i # j
              /\ delivered[k].grounding[i].web
              /\ delivered[k].grounding[j].web
              /\ delivered[k].grounding[i].uri = delivered[k].grounding[j].uri
        /\ Len(out[k].sources) = 1

\* C2: once a snapshot carries a set suggestion, no later snapshot of the
\* stream carries an empty or undefined one.
SuggestionNeverRetracted ==
    \A i, j \in SnapshotIndices :
        (i < j /\ Truthy(out[i].suggestion)) => Truthy(out[j].suggestion)

\* C2 witness: a suggestion was set, and a later chunk brought the marker again.
SuggestionNeverRetractedWitness ==
    \E i, j \in SnapshotIndices :
        /\ i < j
        /\ Truthy(out[i].suggestion)
        /\ Includes(delivered[j].text, Marker)
        /\ Truthy(out[j].suggestion)

\* C3: the k-th item produced is the snapshot of the first k chunks, there are
\* no more snapshots than chunks, and when upstream ends after n chunks the
\* n snapshots are followed by one terminal marker, which is the last item:
\* no item is ever produced after it.
TerminalMarkerLast ==
    /\ \A k \in SnapshotIndices :
          /\ k <= Len(delivered)
          /\ out[k].text = Trim(StripMarkerLine(PrefixText(k)))
    /\ \A k \in 1..Len(out) :
          out[k].done => (k = Len(out) /\ k = Len(delivered) + 1)
    /\ pc = "suspendedDone" =>
          (Len(out) = Len(delivered) + 1 /\ out[Len(out)] = DoneMarker)
    /\ (pc = "completed" /\ out # <<>> /\ out[Len(out)].done) =>
          Len(out) = Len(delivered) + 1

\* C3 witness: the stream ended after two or more chunks, the marker was
\* yielded and the consumer asked for one more item.
TerminalMarkerLastWitness ==
    /\ pc = "completed"
    /\ Len(delivered) >= 2
    /\ Len(out) = Len(delivered) + 1
    /\ out[Len(out)] = DoneMarker

\* C4: with the credential absent the first request fails with the AuthError
\* before the upstream stream is opened: no upstream call is made, and no
\* snapshot or terminal marker is produced.
MissingKeyFailsBeforeOpen ==
    ~apiKey =>
        /\ calls = 0
        /\ delivered = <<>>
        /\ out = <<>>
        /\ upstreamFailure = NoError
        /\ pc \in {"notCalled", "suspendedStart", "threw", "completed"}
        /\ pc = "threw" => thrown = AuthError
        /\ pc # "threw" => thrown = NoError

\* C4 witness: the adapter was called without a credential and has failed.
MissingKeyFailsBeforeOpenWitness ==
    ~apiKey /\ pc = "threw" /\ thrown = AuthError /\ calls = 0

\* C5: when the upstream service fails, at the opening or after k chunks, the
\* generator throws that same failure; one upstream call was made (no retry),
\* exactly the k snapshots emitted before it were produced, and no terminal
\* marker.
UpstreamFailurePropagates ==
    /\ calls <= 1
    /\ upstreamFailure # NoError =>
          /\ pc = "threw"
          /\ thrown = upstreamFailure
          /\ calls = 1
          /\ Len(out) = Len(delivered)
          /\ SnapshotIndices = 1..Len(out)
    /\ (pc = "threw" /\ apiKey) => upstreamFailure \in UpstreamErrors

\* C5 witness: upstream failed after two snapshots had been emitted.
UpstreamFailurePropagatesWitness ==
    /\ upstreamFailure \in UpstreamErrors
    /\ thrown = upstreamFailure
    /\ Len(out) = 2
    /\ Len(delivered) = 2

\* The title line 53 gives a web citation: its title, or its uri when the title is empty.
TitleOf(c) == IF c.title # "" THEN c.title ELSE c.uri

\* The uris of a list of citations or sources, in order.
Uris(list) == [i \in 1..Len(list) |-> list[i].uri]

\* A list of uris with every occurrence after the first dropped.
RECURSIVE FirstAppearances(_)
FirstAppearances(us) ==
    IF us = <<>>
    THEN <<>>
    ELSE LET front == FirstAppearances(SubSeq(us, 1, Len(us) - 1))
             u == us[Len(us)]
         IN  IF \E i \in 1..Len(front) : front[i] = u THEN front ELSE Append(front, u)

\* C6: merge is last-write-wins per uri: every snapshot's sources holds
\* exactly one entry for each uri cited so far, and no other entry, and the
\* entry's title is the one of the latest citation of that uri.
LastWriteWins ==
    \A k \in SnapshotIndices :
        LET cs == Citations(k)
            srcs == out[k].sources
        IN  /\ \A i \in 1..Len(srcs) : \E j \in 1..Len(cs) : cs[j].uri = srcs[i].uri
            /\ \A j \in 1..Len(cs) :
                  LET last == CHOOSE l \in 1..Len(cs) :
                                  /\ cs[l].uri = cs[j].uri
                                  /\ \A l2 \in 1..Len(cs) : cs[l2].uri = cs[j].uri => l2 <= l
                      entries == {i \in 1..Len(srcs) : srcs[i].uri = cs[j].uri}
                  IN  /\ Cardinality(entries) = 1
                      /\ \A i \in entries : srcs[i].title = TitleOf(cs[last])

\* C6 witness: the stream ended after two chunks cited u1 with the titles t1
\* and then t2, and the final snapshot holds u1 once, titled t2.
LastWriteWinsWitness ==
    /\ pc = "suspendedDone"
    /\ \E i, j \in 1..Len(delivered) :
          /\ i < j
          /\ delivered[i].grounding = <<Web("u1", "t1")>>
          /\ delivered[j].grounding = <<Web("u1", "t2")>>
          /\ \A l \in (j + 1)..Len(delivered) : delivered[l].grounding = <<>>
    /\ out[Len(delivered)].sources = <<[uri |-> "u1", title |-> "t2"]>>

\* C7: when the delivered text, however it was split into chunks, is the
\* marker, X, a line feed and a body, and no chunk carried grounding chunks,
\* the last snapshot is {text: trimmed body, suggestion: trimmed X, sources: []}.
MarkerFirstLineScenario ==
    LET n == Len(delivered)
        T == PrefixText(n)
        nl == IndexOf(T, <<LF>>)
    IN  (/\ n >= 1
         /\ StartsWith(T, Marker)
         /\ nl # 0
         /\ \A i \in 1..n : delivered[i].grounding = <<>>)
        => out[n] = [done |-> FALSE,
                     text |-> Trim(SubSeq(T, nl + 1, Len(T))),
                     suggestion |-> Trim(SubSeq(T, Len(Marker) + 1, nl - 1)),
                     sources |-> <<>>]

\* C7 witness: the stream ended after delivering, in three chunks, the marker
\* line with a non-empty X and a non-empty body.
MarkerFirstLineScenarioWitness ==
    /\ pc = "suspendedDone"
    /\ Len(delivered) = 3
    /\ PrefixText(3) = Marker \o <<" ", "a", "a", LF, "b", " ">>
    /\ out[3] = [done |-> FALSE, text |-> <<"b">>, suggestion |-> <<"a", "a">>,
                 sources |-> <<>>]

\* C10: the sources of every snapshot are in the order in which their uris
\* first appeared in the stream, and from one snapshot to the next the
\* existing uris keep their places and new uris are appended after them.
SourcesInFirstAppearanceOrder ==
    /\ \A k \in SnapshotIndices :
          Uris(out[k].sources) = FirstAppearances(Uris(Citations(k)))
    /\ \A k \in SnapshotIndices :
          k > 1 =>
             /\ Len(out[k - 1].sources) <= Len(out[k].sources)
             /\ Uris(out[k - 1].sources) =
                   SubSeq(Uris(out[k].sources), 1, Len(out[k - 1].sources))

\* C10 witness: a uri that was not the last of the list was cited again with
\* another title, and it kept its place while its title changed.
SourcesInFirstAppearanceOrderWitness ==
    \E k \in SnapshotIndices :
        /\ k > 1
        /\ Len(out[k - 1].sources) = 2
        /\ Len(out[k].sources) = 2
        /\ out[k].sources[1].uri = out[k - 1].sources[1].uri
        /\ out[k].sources[1].title # out[k - 1].sources[1].title

\* The lines of a text joined again by line feeds.
RECURSIVE JoinLines(_)
JoinLines(lines) ==
    IF Len(lines) = 1
    THEN lines[1]
    ELSE lines[1] \o <<LF>> \o JoinLines(Tail(lines))

\* A text with every line that matches /^추천검색어:.*$/ emptied.
RemoveMarkerLines(text) ==
    LET lines == Split(text)
    IN  JoinLines([i \in 1..Len(lines) |->
                      IF StartsWith(lines[i], Marker) THEN <<>> ELSE lines[i]])

\* C8, first part: the text of every snapshot is the accumulated text with
\* every line matching the marker pattern removed, trimmed.
EveryMarkerLineRemoved ==
    \A k \in SnapshotIndices :
        out[k].text = Trim(RemoveMarkerLines(PrefixText(k)))

\* C8, second part: when a snapshot carries a suggestion, the marker line it
\* was extracted from is no line of the snapshot's text.
SuggestionLineNotInText ==
    \A k \in SnapshotIndices :
        Truthy(out[k].suggestion) =>
            LET from == FindSuggestionLine(Split(PrefixText(k)))
                lines == Split(out[k].text)
            IN  \A i \in 1..Len(lines) : Trim(lines[i]) # Trim(from)

\* C8: the text of every snapshot is the accumulated text with every marker
\* line removed, trimmed; the marker line of a carried suggestion is not in it.
MarkerLinesRemoved == EveryMarkerLineRemoved /\ SuggestionLineNotInText

\* C9: whenever the accumulated text contains the marker and has more than
\* one line, the snapshot's suggestion is the content of the first marker line
\* of that text (marker stripped, trimmed), an earlier reading of the line
\* while it was incomplete being overwritten; so it is for the final snapshot.
SuggestionIsFirstMarkerLine ==
    \A k \in SnapshotIndices :
        LET T == PrefixText(k)
            line == FindSuggestionLine(Split(T))
        IN  (Includes(T, Marker) /\ Len(Split(T)) > 1 /\ line # Undefined)
            => out[k].suggestion = Trim(RemoveFirst(line, Marker))

\* C13: only web citations contribute to sources: every entry of every
\* snapshot's sources is {uri, title} of a web citation delivered so far,
\* the title being the citation's title when it is non-empty and its uri
\* otherwise; a grounding entry without a web part gives no entry.
OnlyWebCitations ==
    \A k \in SnapshotIndices :
        /\ \A i \in 1..Len(out[k].sources) :
              \E l \in 1..k : \E j \in 1..Len(delivered[l].grounding) :
                  LET c == delivered[l].grounding[j]
                  IN  /\ c.web
                      /\ out[k].sources[i].uri = c.uri
                      /\ out[k].sources[i].title =
                            (IF c.title # "" THEN c.title ELSE c.uri)
        /\ (\A l \in 1..k : \A j \in 1..Len(delivered[l].grounding) :
                ~delivered[l].grounding[j].web)
           => out[k].sources = <<>>

\* C13 witness: a chunk brought a web citation without a title together with
\* an entry that is no web citation; the sources hold the citation alone,
\* titled by its uri.
OnlyWebCitationsWitness ==
    \E k \in SnapshotIndices :
        /\ delivered[k].grounding = <<Web("u2", ""), NonWeb>>
        /\ out[k].sources = <<[uri |-> "u2", title |-> "u2"]>>

\* C14: while the accumulated text is a single line the snapshot's suggestion
\* is undefined, marker or not: a snapshot that carries a suggestion has an
\* accumulated text of more than one line.
NoSuggestionOnSingleLine ==
    \A k \in SnapshotIndices :
        Len(Split(PrefixText(k))) = 1 => out[k].suggestion = Undefined

\* C14 witness: the marker and a suggestion arrived on a single line and no
\* suggestion was recorded; the chunk that brought the line feed recorded it.
NoSuggestionOnSingleLineWitness ==
    \E k \in SnapshotIndices :
        /\ k > 1
        /\ StartsWith(PrefixText(k - 1), Marker \o <<" ", "a">>)
        /\ Len(Split(PrefixText(k - 1))) = 1
        /\ out[k - 1].suggestion = Undefined
        /\ Len(Split(PrefixText(k))) > 1
        /\ Truthy(out[k].suggestion)

\* C18: the uris of the sources never shrink from one snapshot to the next,
\* and a chunk that carries no web citation leaves the sources list as it was
\* (entries, titles and order).
SourcesNeverShrink ==
    \A k \in SnapshotIndices :
        LET before == IF k = 1 THEN <<>> ELSE out[k - 1].sources
        IN  /\ \A i \in 1..Len(before) :
                  \E j \in 1..Len(out[k].sources) :
                      out[k].sources[j].uri = before[i].uri
            /\ (\A j \in 1..Len(delivered[k].grounding) :
                    ~delivered[k].grounding[j].web)
               => out[k].sources = before

\* C18 witness: after two uris were listed, a chunk with no grounding and a
\* chunk whose only grounding entry is no web citation left the list as it was.
SourcesNeverShrinkWitness ==
    /\ Len(delivered) = 3
    /\ Len(out) >= 3
    /\ Len(out[1].sources) = 2
    /\ \/ delivered[2].grounding = <<>>
       \/ delivered[3].grounding = <<>>
    /\ \/ delivered[2].grounding = <<NonWeb>>
       \/ delivered[3].grounding = <<NonWeb>>
    /\ out[3].sources = out[1].sources

\* C15: the adapter is lazy and pull-driven: the upstream stream is opened
\* only by the consumer's first request; a chunk is taken from upstream only
\* while a request of the consumer is pending, all earlier snapshots having
\* been yielded; and once the consumer has abandoned the sequence no upstream
\* call is made, no chunk is taken and no item is produced.
PullDriven ==
    /\ [](/\ requests = 0 => (calls = 0 /\ delivered = <<>> /\ out = <<>>)
          /\ Len(delivered) <= requests
          /\ Len(out) <= requests)
    /\ [][Len(delivered') > Len(delivered) =>
             /\ pc = "awaitingChunk"
             /\ Len(out) = Len(delivered)
             /\ requests = Len(out) + 1]_vars
    /\ [][pc = "completed" => UNCHANGED <<pc, calls, delivered, out>>]_vars

\* C15 witness: the consumer abandoned the sequence after one snapshot, with
\* one request made and one chunk taken.
PullDrivenWitness ==
    /\ pc = "completed"
    /\ requests = 1
    /\ Len(delivered) = 1
    /\ Len(out) = 1
    /\ ~out[1].done

\* C12: handleSearch overwrites its result with each snapshot: after it has
\* processed a snapshot the result's text and sources are the snapshot's, and
\* its suggestion is the snapshot's or, like the snapshot's, not set; nothing
\* is carried over from an earlier snapshot, also when the new text is empty.
ConsumerOverwrites ==
    [][(consuming > 0 /\ pc = "suspendedYield" /\ pc' = "awaitingChunk") =>
          LET chunk == out[Len(out)]
          IN  /\ result'.text = chunk.text
              /\ result'.sources = chunk.sources
              /\ IF Truthy(chunk.suggestion)
                 THEN result'.suggestion = chunk.suggestion
                 ELSE ~Truthy(result'.suggestion)]_vars

\* C16: when the stream fails while handleSearch consumes it, the catch and
\* finally blocks set error to a non-empty message and isSearching to false
\* and leave the result as it was; a search that failed before any snapshot
\* leaves the empty result of its start.
StreamFailureKeepsResult ==
    /\ [][(consuming > 0 /\ pc = "threw" /\ consuming' < consuming) =>
             /\ result' = result
             /\ error' \notin {NoError, ""}
             /\ ~isSearching']_vars
    /\ []((pc = "threw" /\ consuming = 0) => (error \notin {NoError, ""} /\ ~isSearching))
    /\ []((pc = "threw" /\ out = <<>> /\ hasSearched) => result = EmptyResult)

\* C16 witness: upstream failed after a snapshot with text; the search is
\* over, the error is set and the result still holds the text.
StreamFailureKeepsResultWitness ==
    /\ pc = "threw"
    /\ thrown \in UpstreamErrors
    /\ consuming = 0
    /\ ~isSearching
    /\ error # NoError
    /\ Len(out) >= 1
    /\ ~result.isNull
    /\ result.text # <<>>
    /\ result.text = out[Len(out)].text

\* C17: every accepted search starts from a clean state: the call that starts
\* it clears error and sets result to {text: "", sources: []} with no
\* suggestion, and from then on every text, suggestion and source of the
\* result is one of a snapshot of the running (or last run) stream.
CleanStart ==
    /\ [][consuming' > consuming => (result' = EmptyResult /\ error' = NoError)]_vars
    /\ [](result.isNull
          \/ /\ result.text = <<>>
                \/ \E k \in SnapshotIndices : result.text = out[k].text
             /\ ~Truthy(result.suggestion)
                \/ \E k \in SnapshotIndices : result.suggestion = out[k].suggestion
             /\ result.sources = <<>>
                \/ \E k \in SnapshotIndices : result.sources = out[k].sources)

\* C17 witness: a search replaced a result that had content, and its first
\* snapshot, whose text is empty, has been processed.
CleanStartWitness ==
    /\ replaced
    /\ consuming = 1
    /\ Len(out) = 1
    /\ pc = "awaitingChunk"
    /\ out[1].text = <<>>
    /\ result = [EmptyResult EXCEPT !.sources = out[1].sources]

\* C19: a handleSearch call made while a search is in progress, or with a
\* blank search term, starts no stream and leaves isSearching, result, error
\* and hasSearched as they were; at most one stream is being consumed at any
\* time, and one is being consumed exactly while isSearching is true.
OneSearchAtATime ==
    /\ [](consuming <= 1 /\ (isSearching <=> consuming = 1))
    /\ [][(lastCall' = "returned" /\ lastCall # "returned") =>
             UNCHANGED <<genVars, isSearching, result, error, hasSearched,
                         consuming>>]_vars
    /\ [][consuming' > consuming => ~isSearching]_vars

\* C19 witness: while a stream was being consumed, with a snapshot already
\* shown, handleSearch was called again and returned early.
OneSearchAtATimeWitness ==
    /\ lastCall = "returned"
    /\ isSearching
    /\ consuming = 1
    /\ Len(out) >= 1
    /\ result.text # <<>>

\* C20: with upstream eventually ending or failing, every accepted search
\* eventually sets isSearching back to false, and the handlers eventually
\* see it false, so that a later search is accepted.
SearchEventuallyEnds ==
    /\ isSearching ~> ~isSearching
    /\ seenIsSearching ~> (~seenIsSearching /\ ~isSearching)

\* C20 witness: a search has run to the terminal marker and the App is ready
\* for the next one.
SearchEventuallyEndsWitness ==
    /\ pc = "completed"
    /\ hasSearched
    /\ ~isSearching
    /\ ~seenIsSearching
    /\ consuming = 0
    /\ Len(out) >= 2

\* The run of one invocation alone on a chunk sequence: its locals after the
\* last chunk and the snapshots it yields.
RECURSIVE RunAlone(_)
RunAlone(chunks) ==
    IF chunks = <<>>
    THEN [fullText |-> <<>>, suggestion |-> Undefined, sources |-> <<>>, out |-> <<>>]
    ELSE LET before == RunAlone(SubSeq(chunks, 1, Len(chunks) - 1))
             chunk == chunks[Len(chunks)]
             text == before.fullText \o chunk.text
             sugg == ExtractSuggestion(before.suggestion, text)
             srcs == MergeSources(before.sources, chunk.grounding)
         IN  [fullText |-> text, suggestion |-> sugg, sources |-> srcs,
              out |-> Append(before.out, Snapshot(text, sugg, srcs))]

\* The items are the snapshots of a run alone on the chunks, then at most the
\* terminal marker.
EmitsAsAlone(items, chunks) ==
    /\ Len(items) \in {Len(chunks), Len(chunks) + 1}
    /\ SubSeq(items, 1, Len(chunks)) = RunAlone(chunks).out
    /\ Len(items) = Len(chunks) + 1 => items[Len(items)] = DoneMarker

\* C11: two invocations of performSearchStream whose chunk arrivals interleave
\* in any order share no state: each has yielded exactly the snapshots it
\* would have yielded running alone on the chunks it took itself.
InvocationsIsolated ==
    /\ EmitsAsAlone(out, delivered)
    /\ EmitsAsAlone(other.out, other.delivered)

\* C11 witness: the arrivals of the two streams interleaved, each invocation
\* has yielded two snapshots, and their texts, suggestions and sources differ.
InvocationsIsolatedWitness ==
    /\ other.interleaved
    /\ Len(delivered) = 2
    /\ Len(other.delivered) = 2
    /\ Len(out) = 2
    /\ Len(other.out) = 2
    /\ Truthy(out[2].suggestion)
    /\ Truthy(other.out[2].suggestion)
    /\ out[2].suggestion # other.out[2].suggestion
    /\ out[2].text # other.out[2].text
    /\ \A i \in 1..Len(out[2].sources) :
          \A j \in 1..Len(other.out[2].sources) :
             out[2].sources[i].uri # other.out[2].sources[j].uri

====
